---------------------------- MODULE Spec2Model ----------------------------
(***************************************************************************)
(* Model of the vhost control plane of crosvm (vhost/src/lib.rs): the      *)
(* Vhost trait's configuration operations, the ring address validator      *)
(* is_valid and the memory table built by set_mem_table; and of its two    *)
(* collaborators, the libvda decoder session (vda.rs) and the device tree  *)
(* builder's start_fdt and finish_fdt (fdt.rs).                            *)
(*                                                                         *)
(* Addresses are usize in the source.  The model keeps the arithmetic of   *)
(* the source (checked_add, the ring size formulas, little-endian layout   *)
(* of the kernel structures) over a scaled-down address type 0..UsizeMax.  *)
(***************************************************************************)
EXTENDS Integers, Sequences, FiniteSets, TLC

VARIABLES
    mem,        \* the session's GuestMemory: a sequence of regions
    kernel,     \* kernel-side configuration of the vhost file descriptor
    ioctls,     \* kernel calls issued by the most recent operation, in order
    last,       \* the most recent operation: its name, arguments and result
    table,      \* buffer built by the most recent set_mem_table, and when
    prev_table, \* buffer built by the set_mem_table before that one, and when
    nops,       \* number of operations invoked on the session so far
    vq,         \* candidate arguments of is_valid (validator specification)
    verdict,    \* result of is_valid on vq, "none" before the call
    vda,        \* a LibvdaSession (video decoder bridge) and its last operation
    fdt         \* the last device tree operation and the library calls it made

vars == <<mem, kernel, ioctls, last, table, prev_table, nops, vq, verdict, vda, fdt>>

---------------------------------------------------------------------------
(* Bounds of the model *)

\* Largest value of the scaled-down address type (usize::MAX in the source).
UsizeMax == 16383

\* Longest sequence of operations invoked on one session.
MaxOps == 3

---------------------------------------------------------------------------
(* GuestMemory (sys_util), as the specification describes it *)

Region(base, size, host) ==
    [guest_base |-> base, size |-> size, host_address |-> host]

\* The memory map of the unit tests: regions (0x0, 0x100) and (0x100, 0x400).
TestMap == << Region(0, 256, 4096), Region(256, 1024, 8192) >>

\* A map with an unmapped gap [0x100, 0x200) between its two regions.
GapMap == << Region(0, 256, 4096), Region(512, 256, 8192) >>

\* One region large enough for a queue of 256 descriptors.
BigMap == << Region(0, 8192, 4096) >>

\* No region at all.
EmptyMap == << >>

MemoryMaps == {TestMap, GapMap, BigMap, EmptyMap}

\* The maps a session is created with in the session specification.
SessionMaps == {TestMap, GapMap, EmptyMap}

region_end(r) == r.guest_base + r.size

InRegion(r, a) == r.guest_base <= a /\ a < region_end(r)

\* GuestMemory::num_regions
num_regions(m) == Len(m)

\* GuestMemory::address_in_range: the address is within some mapped region.
address_in_range(m, a) == \E i \in 1..Len(m) : InRegion(m[i], a)

\* GuestMemory::get_host_address: Ok(host address) or Err(GuestMemoryError).
get_host_address(m, a) ==
    IF \E i \in 1..Len(m) : InRegion(m[i], a)
    THEN LET i == CHOOSE j \in 1..Len(m) : InRegion(m[j], a)
         IN  [ok |-> TRUE, addr |-> m[i].host_address + (a - m[i].guest_base)]
    ELSE [ok |-> FALSE, addr |-> a]

\* GuestAddress::checked_add: Some(sum) as {sum}, None as {} on overflow.
checked_add(a, n) == IF a + n > UsizeMax THEN {} ELSE {a + n}

---------------------------------------------------------------------------
(* Bit arithmetic on u16 *)

RECURSIVE BitAnd(_, _)
BitAnd(x, y) ==
    IF x = 0 \/ y = 0 THEN 0
    ELSE (IF x % 2 = 1 /\ y % 2 = 1 THEN 1 ELSE 0) + 2 * BitAnd(x \div 2, y \div 2)

---------------------------------------------------------------------------
(* The Address Validator: Vhost::is_valid *)

desc_table_size(queue_size) == 16 * queue_size
avail_ring_size(queue_size) == 6 + 2 * queue_size
used_ring_size(queue_size)  == 6 + 8 * queue_size

\* size_check without the queue_size == 0 test: queue_size - 1 wraps in u16.
size_check_nozero(queue_max_size, queue_size) ==
    IF queue_size > queue_max_size
    THEN [reject |-> TRUE, underflow |-> FALSE]
    ELSE [reject    |-> BitAnd(queue_size, (queue_size - 1) % 65536) # 0,
          underflow |-> queue_size = 0]

\* The geometry test of is_valid, with Rust's left-to-right short circuit of
\* ||.  reject: the test is true.  underflow: queue_size - 1 was evaluated
\* with queue_size = 0.
size_check(queue_max_size, queue_size) ==
    IF queue_size > queue_max_size
    THEN [reject |-> TRUE, underflow |-> FALSE]
    ELSE IF queue_size = 0
    THEN [reject |-> TRUE, underflow |-> FALSE]
    ELSE [reject    |-> BitAnd(queue_size, queue_size - 1) # 0,
          underflow |-> FALSE]

\* ring_fails with wrapping_add in place of checked_add.
ring_fails_wrapping(m, addr, len) ==
    ~address_in_range(m, (addr + len) % (UsizeMax + 1))

\* addr.checked_add(len).map_or(true, |v| !self.mem().address_in_range(v))
ring_fails(m, addr, len) ==
    \A v \in checked_add(addr, len) : ~address_in_range(m, v)

is_valid(m, queue_max_size, queue_size, desc_addr, avail_addr, used_addr) ==
    IF size_check(queue_max_size, queue_size).reject THEN FALSE
    ELSE IF ring_fails(m, desc_addr, desc_table_size(queue_size)) THEN FALSE
    ELSE IF ring_fails(m, avail_addr, avail_ring_size(queue_size)) THEN FALSE
    ELSE IF ring_fails(m, used_addr, used_ring_size(queue_size)) THEN FALSE
    ELSE TRUE

---------------------------------------------------------------------------
(* Kernel structures, laid out as the kernel reads them (little-endian) *)

\* mem::size_of::<virtio_sys::vhost_memory>(): nregions: u32, padding: u32.
VhostMemorySize == 8

\* mem::size_of::<virtio_sys::vhost_memory_region>(): four u64 fields.
VhostMemoryRegionSize == 32

RECURSIVE le_bytes(_, _)
\* The n bytes of the unsigned integer v, least significant byte first.
le_bytes(v, n) == IF n = 0 THEN << >> ELSE <<v % 256>> \o le_bytes(v \div 256, n - 1)

\* buf with the bytes bs written at byte offset off (0-based).
write_at(buf, off, bs) ==
    [i \in 1..Len(buf) |-> IF off < i /\ i <= off + Len(bs) THEN bs[i - off] ELSE buf[i]]

\* The vhost_memory_region stored for one region by the closure given to
\* with_regions_mut.
vhost_memory_region(r) ==
    le_bytes(r.guest_base, 8) \o le_bytes(r.size, 8) \o le_bytes(r.host_address, 8)
        \o le_bytes(0, 8)

RECURSIVE with_regions_mut(_, _, _)
\* GuestMemory::with_regions_mut: the closure is run on every region in
\* enumeration order, index 0 first; index counts the regions already done.
with_regions_mut(m, index, bytes) ==
    IF index >= Len(m) THEN bytes
    ELSE with_regions_mut(m, index + 1,
             write_at(bytes, VhostMemorySize + index * VhostMemoryRegionSize,
                      vhost_memory_region(m[index + 1])))

\* build_mem_table with room for one record too many.
build_mem_table_unsized(m) ==
    LET vec_size_bytes == VhostMemorySize + (num_regions(m) + 1) * VhostMemoryRegionSize
        zeroed == [i \in 1..vec_size_bytes |-> 0]
    IN  with_regions_mut(m, 0, write_at(zeroed, 0, le_bytes(num_regions(m), 4)))

\* The buffer set_mem_table hands to VHOST_SET_MEM_TABLE.
build_mem_table(m) ==
    LET vec_size_bytes == VhostMemorySize + num_regions(m) * VhostMemoryRegionSize
        zeroed == [i \in 1..vec_size_bytes |-> 0]
    IN  with_regions_mut(m, 0, write_at(zeroed, 0, le_bytes(num_regions(m), 4)))

---------------------------------------------------------------------------
(* Results and kernel calls *)

Ok(v) == [kind |-> "Ok", val |-> v]
Err(kind, v) == [kind |-> kind, val |-> v]

\* The kernel's reply to one ioctl: return code, errno, and for
\* VHOST_GET_FEATURES the mask it writes (out).
Reply(ret, errno, out) == [ret |-> ret, errno |-> errno, out |-> out]

\* Replies of ioctls that write nothing back: success, EPERM, EINVAL.
Replies == { Reply(0, 0, 0), Reply(-1, 1, 0), Reply(-1, 22, 0) }

\* Replies of VHOST_GET_FEATURES.
FeatureReplies == { Reply(0, 0, 0), Reply(0, 0, 3), Reply(-1, 1, 0), Reply(-1, 22, 0) }

\* ioctl_result: Err(IoctlError(SysError::last())).
ioctl_result(reply) == Err("IoctlError", reply.errno)

Call(req, arg, reply) == [req |-> req, arg |-> arg, ret |-> reply.ret, errno |-> reply.errno]

\* What an operation did: the kernel calls it issued and what it returned.
Outcome(calls, result) == [calls |-> calls, result |-> result]

\* checked with the kernel's failure swallowed.
checked_swallowed(reply, v) == Ok(v)

\* The tail shared by every operation: if ret < 0 { return ioctl_result(); } Ok(v)
checked(reply, v) == IF reply.ret < 0 THEN ioctl_result(reply) ELSE Ok(v)

---------------------------------------------------------------------------
(* The operations of the Vhost trait.  Each gives, for its arguments and    *)
(* the kernel's reply, the kernel calls it issues and the result it returns *)

set_owner(reply) ==
    Outcome(<<Call("VHOST_SET_OWNER", << >>, reply)>>, checked(reply, 0))

get_features(reply) ==
    Outcome(<<Call("VHOST_GET_FEATURES", << >>, reply)>>,
            checked(reply, IF reply.ret < 0 THEN 0 ELSE reply.out))

set_features(features, reply) ==
    Outcome(<<Call("VHOST_SET_FEATURES", features, reply)>>, checked(reply, 0))

set_mem_table(m, reply) ==
    Outcome(<<Call("VHOST_SET_MEM_TABLE", build_mem_table(m), reply)>>, checked(reply, 0))

vhost_vring_state(index, num) == [index |-> index, num |-> num]

vhost_vring_file(index, fd) == [index |-> index, fd |-> fd]

set_vring_num(queue_index, num, reply) ==
    Outcome(<<Call("VHOST_SET_VRING_NUM", vhost_vring_state(queue_index, num), reply)>>,
            checked(reply, 0))

set_vring_base(queue_index, num, reply) ==
    Outcome(<<Call("VHOST_SET_VRING_BASE", vhost_vring_state(queue_index, num), reply)>>,
            checked(reply, 0))

set_vring_call(queue_index, fd, reply) ==
    Outcome(<<Call("VHOST_SET_VRING_CALL", vhost_vring_file(queue_index, fd), reply)>>,
            checked(reply, 0))

set_vring_kick(queue_index, fd, reply) ==
    Outcome(<<Call("VHOST_SET_VRING_KICK", vhost_vring_file(queue_index, fd), reply)>>,
            checked(reply, 0))

\* The arguments of set_vring_addr, in the order of its signature.  log_addr
\* is an Option: None is {} and Some(a) is {a}.
VringAddrArgs(qmax, size, index, flags, desc, used, avail, log) ==
    [queue_max_size |-> qmax, queue_size |-> size, queue_index |-> index,
     flags |-> flags, desc_addr |-> desc, used_addr |-> used, avail_addr |-> avail,
     log_addr |-> log]

vhost_vring_addr(index, flags, desc, used, avail, log) ==
    [index |-> index, flags |-> flags, desc_user_addr |-> desc,
     used_user_addr |-> used, avail_user_addr |-> avail, log_guest_addr |-> log]

\* set_vring_addr_translated with the available ring translated before the
\* used ring.
set_vring_addr_avail_first(m, a, reply) ==
    LET desc  == get_host_address(m, a.desc_addr)
        used  == get_host_address(m, a.used_addr)
        avail == get_host_address(m, a.avail_addr)
        log   == IF a.log_addr = {} THEN [ok |-> TRUE, addr |-> 0]
                 ELSE get_host_address(m, CHOOSE x \in a.log_addr : TRUE)
    IN  IF ~desc.ok THEN Outcome(<< >>, Err("DescriptorTableAddress", desc.addr))
        ELSE IF ~avail.ok THEN Outcome(<< >>, Err("AvailAddress", avail.addr))
        ELSE IF ~used.ok THEN Outcome(<< >>, Err("UsedAddress", used.addr))
        ELSE IF ~log.ok THEN Outcome(<< >>, Err("LogAddress", log.addr))
        ELSE Outcome(<<Call("VHOST_SET_VRING_ADDR",
                            vhost_vring_addr(a.queue_index, a.flags, desc.addr,
                                             used.addr, avail.addr, log.addr),
                            reply)>>,
                     checked(reply, 0))

\* set_vring_addr after the validator has accepted: the translations, in
\* source order, then the kernel call.
set_vring_addr_translated(m, a, reply) ==
    LET desc  == get_host_address(m, a.desc_addr)
        used  == get_host_address(m, a.used_addr)
        avail == get_host_address(m, a.avail_addr)
        log   == IF a.log_addr = {} THEN [ok |-> TRUE, addr |-> 0]
                 ELSE get_host_address(m, CHOOSE x \in a.log_addr : TRUE)
    IN  IF ~desc.ok THEN Outcome(<< >>, Err("DescriptorTableAddress", desc.addr))
        ELSE IF ~used.ok THEN Outcome(<< >>, Err("UsedAddress", used.addr))
        ELSE IF ~avail.ok THEN Outcome(<< >>, Err("AvailAddress", avail.addr))
        ELSE IF ~log.ok THEN Outcome(<< >>, Err("LogAddress", log.addr))
        ELSE Outcome(<<Call("VHOST_SET_VRING_ADDR",
                            vhost_vring_addr(a.queue_index, a.flags, desc.addr,
                                             used.addr, avail.addr, log.addr),
                            reply)>>,
                     checked(reply, 0))

\* set_vring_addr without the early return on a rejected queue.
set_vring_addr_unchecked(m, a, reply) == set_vring_addr_translated(m, a, reply)

\* set_vring_addr with the validation after the kernel call.
set_vring_addr_late_check(m, a, reply) ==
    LET done == set_vring_addr_translated(m, a, reply)
    IN  IF ~is_valid(m, a.queue_max_size, a.queue_size, a.desc_addr, a.used_addr, a.avail_addr)
        THEN Outcome(done.calls, Err("InvalidQueue", 0))
        ELSE done

\* is_valid is declared (desc_addr, avail_addr, used_addr); set_vring_addr
\* calls it with (desc_addr, used_addr, avail_addr).
set_vring_addr(m, a, reply) ==
    IF ~is_valid(m, a.queue_max_size, a.queue_size, a.desc_addr, a.used_addr, a.avail_addr)
    THEN Outcome(<< >>, Err("InvalidQueue", 0))
    ELSE set_vring_addr_translated(m, a, reply)

---------------------------------------------------------------------------
(* The kernel side of the vhost file descriptor *)

AllQueueIndexes == {0, 1}

Unset == << >>

KernelInit ==
    [owner |-> FALSE, features |-> Unset, mem_table |-> Unset,
     vring_num  |-> [q \in AllQueueIndexes |-> Unset],
     vring_addr |-> [q \in AllQueueIndexes |-> Unset],
     vring_base |-> [q \in AllQueueIndexes |-> Unset],
     vring_call |-> [q \in AllQueueIndexes |-> Unset],
     vring_kick |-> [q \in AllQueueIndexes |-> Unset]]

\* The table the kernel copies: the header, then as many records as the
\* header's count declares.
kernel_copy(bytes) ==
    LET n == bytes[1] + 256 * bytes[2] + 65536 * bytes[3] + 16777216 * bytes[4]
    IN  SubSeq(bytes, 1, VhostMemorySize + n * VhostMemoryRegionSize)

\* A kernel call takes effect if and only if it returns no negative code.
kernel_apply(k, c) ==
    IF c.ret < 0 THEN k
    ELSE CASE c.req = "VHOST_SET_OWNER"      -> [k EXCEPT !.owner = TRUE]
           [] c.req = "VHOST_GET_FEATURES"   -> k
           [] c.req = "VHOST_SET_FEATURES"   -> [k EXCEPT !.features = <<c.arg>>]
           [] c.req = "VHOST_SET_MEM_TABLE"  -> [k EXCEPT !.mem_table = <<kernel_copy(c.arg)>>]
           [] c.req = "VHOST_SET_VRING_NUM"  -> [k EXCEPT !.vring_num[c.arg.index] = <<c.arg>>]
           [] c.req = "VHOST_SET_VRING_ADDR" -> [k EXCEPT !.vring_addr[c.arg.index] = <<c.arg>>]
           [] c.req = "VHOST_SET_VRING_BASE" -> [k EXCEPT !.vring_base[c.arg.index] = <<c.arg>>]
           [] c.req = "VHOST_SET_VRING_CALL" -> [k EXCEPT !.vring_call[c.arg.index] = <<c.arg>>]
           [] c.req = "VHOST_SET_VRING_KICK" -> [k EXCEPT !.vring_kick[c.arg.index] = <<c.arg>>]

RECURSIVE kernel_apply_all(_, _)
kernel_apply_all(k, calls) ==
    IF calls = << >> THEN k
    ELSE kernel_apply_all(kernel_apply(k, Head(calls)), Tail(calls))

---------------------------------------------------------------------------
(* Inputs of the session specification *)

QueueIndexes == {0}
FeatureMasks == {0, 1}
VringNums == {2}
EventFds == {5}
QueueMaxSizes == {2}
QueueSizes == {0, 2, 4}
VringFlags == {0}
\* 0 is mapped in every map but the empty one.  1264 is 16 bytes below the end
\* of TestMap: an available ring of 2 entries fits there, a used ring does not.
SessionAddrs == {0, 1264}
LogAddrs == {{}, {0}}
\* 504 lies in the gap of GapMap, 8 bytes below its second region: every ring
\* of 2 entries based there has a mapped end address and an unmapped start.
GapAddrs == {0, 504}
GapLogAddrs == {{}, {0}, {504}}

\* The addresses a session with map m is driven with.
SessionAddrsOf(m) == IF m = GapMap THEN GapAddrs ELSE SessionAddrs
LogAddrsOf(m) == IF m = GapMap THEN GapLogAddrs ELSE LogAddrs

---------------------------------------------------------------------------
(* The session: a Vhost implementor driven by one thread *)

NoVq == [queue_max_size |-> 0, queue_size |-> 0, desc_addr |-> 0,
         avail_addr |-> 0, used_addr |-> 0]

\* No set_mem_table yet.  at: the number of the operation that built bytes.
NoTable == [bytes |-> << >>, at |-> 0]

NotCalled == [called |-> FALSE, valid |-> FALSE, underflow |-> FALSE]

\* LibvdaSession::new: set_output_buffer_count_called is Default (false).
\* negotiated and negotiations record what the underlying session has seen: a
\* set_output_buffer_count has succeeded since the session was created or
\* since the last ProvidePictureBuffers event, and how many have succeeded.
\* before holds called and negotiated as they were when the last operation
\* was invoked.
VdaNew ==
    [set_output_buffer_count_called |-> FALSE,
     negotiated |-> FALSE, negotiations |-> 0,
     before |-> [called |-> FALSE, negotiated |-> FALSE],
     calls |-> << >>,
     last |-> [op |-> "new", args |-> << >>, result |-> Ok(0)],
     n |-> 0]

\* No device tree operation yet.
FdtNew == [op |-> "new", fdt_max_size |-> 0, steps |-> << >>, result |-> Ok(0), n |-> 0]

Init ==
    /\ mem \in SessionMaps
    /\ kernel = KernelInit
    /\ ioctls = << >>
    /\ last = [op |-> "new", args |-> << >>, result |-> Ok(0)]
    /\ table = NoTable
    /\ prev_table = NoTable
    /\ nops = 0
    /\ vq = NoVq
    /\ verdict = NotCalled
    /\ vda = VdaNew
    /\ fdt = FdtNew

\* The effect of one operation on the state: the kernel acts on the calls it
\* was given, and the caller sees the result.
Perform(op, args, out) ==
    /\ nops < MaxOps
    /\ nops' = nops + 1
    /\ ioctls' = out.calls
    /\ kernel' = kernel_apply_all(kernel, out.calls)
    /\ last' = [op |-> op, args |-> args, result |-> out.result]
    /\ UNCHANGED <<mem, vq, verdict, vda, fdt>>

SetOwner ==
    \E reply \in Replies :
        /\ Perform("set_owner", << >>, set_owner(reply))
        /\ UNCHANGED <<table, prev_table>>

GetFeatures ==
    \E reply \in FeatureReplies :
        /\ Perform("get_features", << >>, get_features(reply))
        /\ UNCHANGED <<table, prev_table>>

SetFeatures ==
    \E features \in FeatureMasks, reply \in Replies :
        /\ Perform("set_features", <<features>>, set_features(features, reply))
        /\ UNCHANGED <<table, prev_table>>

\* A set_mem_table that keeps the buffer of the previous call and appends to it.
SetMemTableCached ==
    \E reply \in Replies :
        LET fresh == build_mem_table(mem)
            bytes == IF table = NoTable THEN fresh
                     ELSE table.bytes \o SubSeq(fresh, VhostMemorySize + 1, Len(fresh))
        IN  /\ Perform("set_mem_table", << >>,
                       Outcome(<<Call("VHOST_SET_MEM_TABLE", bytes, reply)>>, checked(reply, 0)))
            /\ table' = [bytes |-> bytes, at |-> nops + 1]
            /\ prev_table' = table

SetMemTable ==
    \E reply \in Replies :
        LET out == set_mem_table(mem, reply)
        IN  /\ Perform("set_mem_table", << >>, out)
            /\ table' = [bytes |-> out.calls[1].arg, at |-> nops + 1]
            /\ prev_table' = table

SetVringNum ==
    \E q \in QueueIndexes, num \in VringNums, reply \in Replies :
        /\ Perform("set_vring_num", <<q, num>>, set_vring_num(q, num, reply))
        /\ UNCHANGED <<table, prev_table>>

\* A set_vring_addr that refuses locally until set_mem_table has been invoked.
SetVringAddrAfterMemTable ==
    \E qmax \in QueueMaxSizes, size \in QueueSizes, q \in QueueIndexes,
       flags \in VringFlags, desc \in SessionAddrsOf(mem), used \in SessionAddrsOf(mem),
       avail \in SessionAddrsOf(mem), log \in LogAddrsOf(mem) :
        LET a == VringAddrArgs(qmax, size, q, flags, desc, used, avail, log)
            out(reply) == IF table = NoTable THEN Outcome(<< >>, Err("InvalidQueue", 0))
                          ELSE set_vring_addr(mem, a, reply)
            reached == out(Reply(0, 0, 0)).calls # << >>
        IN  \E reply \in (IF reached THEN Replies ELSE {Reply(0, 0, 0)}) :
                /\ Perform("set_vring_addr", a, out(reply))
                /\ UNCHANGED <<table, prev_table>>

\* The kernel replies only to an invocation that reaches its kernel call.
SetVringAddr ==
    \E qmax \in QueueMaxSizes, size \in QueueSizes, q \in QueueIndexes,
       flags \in VringFlags, desc \in SessionAddrsOf(mem), used \in SessionAddrsOf(mem),
       avail \in SessionAddrsOf(mem), log \in LogAddrsOf(mem) :
        LET a == VringAddrArgs(qmax, size, q, flags, desc, used, avail, log)
            reached == set_vring_addr(mem, a, Reply(0, 0, 0)).calls # << >>
        IN  \E reply \in (IF reached THEN Replies ELSE {Reply(0, 0, 0)}) :
                /\ Perform("set_vring_addr", a, set_vring_addr(mem, a, reply))
                /\ UNCHANGED <<table, prev_table>>

SetVringBase ==
    \E q \in QueueIndexes, num \in VringNums, reply \in Replies :
        /\ Perform("set_vring_base", <<q, num>>, set_vring_base(q, num, reply))
        /\ UNCHANGED <<table, prev_table>>

SetVringCall ==
    \E q \in QueueIndexes, fd \in EventFds, reply \in Replies :
        /\ Perform("set_vring_call", <<q, fd>>, set_vring_call(q, fd, reply))
        /\ UNCHANGED <<table, prev_table>>

SetVringKick ==
    \E q \in QueueIndexes, fd \in EventFds, reply \in Replies :
        /\ Perform("set_vring_kick", <<q, fd>>, set_vring_kick(q, fd, reply))
        /\ UNCHANGED <<table, prev_table>>

Next ==
    \/ SetOwner
    \/ GetFeatures
    \/ SetFeatures
    \/ SetMemTable
    \/ SetVringNum
    \/ SetVringAddr
    \/ SetVringBase
    \/ SetVringCall
    \/ SetVringKick

Spec == Init /\ [][Next]_vars

---------------------------------------------------------------------------
(* The validator specification: is_valid applied to candidate arguments *)

\* The sizes the unit-test property names, and two device maxima.
ValidatorSizes == {0, 1, 2, 3, 4, 5, 16, 17, 256}
ValidatorMaxSizes == {4, 256}

\* The places where a map changes between mapped and unmapped, and the first
\* address beyond the address type.
Boundaries(m) ==
    {m[i].guest_base : i \in 1..Len(m)} \cup {region_end(m[i]) : i \in 1..Len(m)}
        \cup {UsizeMax + 1}

\* Base addresses of a ring of len bytes that ends at, or one byte before, a
\* boundary; address 0; and 0x4F8.
RingBases(m, len) ==
    ({b - len - d : b \in Boundaries(m), d \in {0, 1}} \cup {0, 1272}) \cap (0..UsizeMax)

InitValidator ==
    /\ mem \in MemoryMaps
    /\ kernel = KernelInit
    /\ ioctls = << >>
    /\ last = [op |-> "new", args |-> << >>, result |-> Ok(0)]
    /\ table = NoTable
    /\ prev_table = NoTable
    /\ nops = 0
    /\ \E qmax \in ValidatorMaxSizes, size \in ValidatorSizes :
         \E desc \in RingBases(mem, desc_table_size(size)),
            avail \in RingBases(mem, avail_ring_size(size)),
            used \in RingBases(mem, used_ring_size(size)) :
             vq = [queue_max_size |-> qmax, queue_size |-> size, desc_addr |-> desc,
                   avail_addr |-> avail, used_addr |-> used]
    /\ verdict = NotCalled
    /\ vda = VdaNew
    /\ fdt = FdtNew

IsValid ==
    /\ ~verdict.called
    /\ verdict' = [called    |-> TRUE,
                   valid     |-> is_valid(mem, vq.queue_max_size, vq.queue_size,
                                          vq.desc_addr, vq.avail_addr, vq.used_addr),
                   underflow |-> size_check(vq.queue_max_size, vq.queue_size).underflow]
    /\ UNCHANGED <<mem, kernel, ioctls, last, table, prev_table, nops, vq, vda, fdt>>

NextValidator == IsValid

ValidatorSpec == InitValidator /\ [][NextValidator]_vars

---------------------------------------------------------------------------
(* Properties of the validator, checked under ValidatorSpec *)

\* The ring [base, base + len) lies in one mapped region, start to end.
RingInOneRegion(m, base, len) ==
    \E i \in 1..Len(m) : m[i].guest_base <= base /\ base + len <= region_end(m[i])

\* The end address base + len does not overflow and is a mapped address.
RingEndMapped(m, base, len) ==
    base + len <= UsizeMax /\ address_in_range(m, base + len)

IsPowerOfTwo(n) == n \in {1, 2, 4, 8, 16, 32, 64, 128, 256, 512, 1024, 2048,
                          4096, 8192, 16384, 32768}

GoodSize(v) ==
    v.queue_size # 0 /\ IsPowerOfTwo(v.queue_size) /\ v.queue_size <= v.queue_max_size

\* C2: whenever is_valid returns true, each of the three ring regions lies
\* entirely within a single mapped GuestMemoryRegion.
C2_AcceptedRingsWithinOneRegion ==
    (verdict.called /\ verdict.valid) =>
        /\ RingInOneRegion(mem, vq.desc_addr, desc_table_size(vq.queue_size))
        /\ RingInOneRegion(mem, vq.avail_addr, avail_ring_size(vq.queue_size))
        /\ RingInOneRegion(mem, vq.used_addr, used_ring_size(vq.queue_size))

\* C4: is_valid is false for a size above the maximum, zero or not a power of
\* two; when all three ring ends are mapped it is true exactly for a nonzero
\* power of two not above the maximum; and queue_size - 1 is never evaluated
\* for queue_size = 0.
C4_SizeRule ==
    verdict.called =>
        /\ ~GoodSize(vq) => ~verdict.valid
        /\ ( /\ RingEndMapped(mem, vq.desc_addr, desc_table_size(vq.queue_size))
             /\ RingEndMapped(mem, vq.avail_addr, avail_ring_size(vq.queue_size))
             /\ RingEndMapped(mem, vq.used_addr, used_ring_size(vq.queue_size)) )
           => (verdict.valid <=> GoodSize(vq))
        /\ vq.queue_size \in {0, 3, 5, 17} => ~verdict.valid
        /\ ~verdict.underflow

\* A queue size of 0 with every ring end mapped, rejected.
C4_Witness ==
    /\ verdict.called
    /\ vq.queue_size = 0
    /\ RingEndMapped(mem, vq.desc_addr, desc_table_size(vq.queue_size))
    /\ RingEndMapped(mem, vq.avail_addr, avail_ring_size(vq.queue_size))
    /\ RingEndMapped(mem, vq.used_addr, used_ring_size(vq.queue_size))
    /\ ~verdict.valid

\* C5: is_valid is false if base + length overflows the address type for any
\* of the three rings, whatever the map, and false if any ring's end address
\* is in no mapped region.
C5_OverflowOrUnmappedEndRejected ==
    verdict.called =>
        \A ring \in { <<vq.desc_addr, desc_table_size(vq.queue_size)>>,
                      <<vq.avail_addr, avail_ring_size(vq.queue_size)>>,
                      <<vq.used_addr, used_ring_size(vq.queue_size)>> } :
            /\ ring[1] + ring[2] > UsizeMax => ~verdict.valid
            /\ ~address_in_range(mem, ring[1] + ring[2]) => ~verdict.valid

\* The unit-test case: a descriptor table of 16 entries at 0x4F8 in the test
\* map, the other two rings and the size being acceptable.
C5_Witness ==
    /\ verdict.called
    /\ mem = TestMap
    /\ vq.queue_size = 16 /\ vq.queue_max_size = 256
    /\ vq.desc_addr = 1272
    /\ RingEndMapped(mem, vq.avail_addr, avail_ring_size(vq.queue_size))
    /\ RingEndMapped(mem, vq.used_addr, used_ring_size(vq.queue_size))
    /\ ~verdict.valid

\* C6: for a valid queue size and three rings each fully contained in a
\* mapped region, is_valid returns true.
C6_ContainedRingsAccepted ==
    ( /\ verdict.called
      /\ GoodSize(vq)
      /\ RingInOneRegion(mem, vq.desc_addr, desc_table_size(vq.queue_size))
      /\ RingInOneRegion(mem, vq.avail_addr, avail_ring_size(vq.queue_size))
      /\ RingInOneRegion(mem, vq.used_addr, used_ring_size(vq.queue_size)) )
    => verdict.valid

---------------------------------------------------------------------------
(* Properties of the session, checked under Spec *)

\* The validator's verdict inside set_vring_addr, on the arguments as the
\* invocation hands them over.
ValidatorAccepts(a) ==
    is_valid(mem, a.queue_max_size, a.queue_size, a.desc_addr, a.used_addr, a.avail_addr)

\* C1: a set_vring_addr whose arguments the validator rejects returns
\* InvalidQueue and issues no kernel call; every VHOST_SET_VRING_ADDR that
\* reaches the kernel comes from a set_vring_addr whose validator accepted.
C1_NoKernelCallWhenRejected ==
    /\ (last.op = "set_vring_addr" /\ ~ValidatorAccepts(last.args)) =>
           (last.result = Err("InvalidQueue", 0) /\ ioctls = << >>)
    /\ \A i \in 1..Len(ioctls) :
           ioctls[i].req = "VHOST_SET_VRING_ADDR" =>
               (last.op = "set_vring_addr" /\ ValidatorAccepts(last.args))

\* A rejected queue whose three addresses could all have been translated.
C1_Witness ==
    /\ last.op = "set_vring_addr"
    /\ ~ValidatorAccepts(last.args)
    /\ get_host_address(mem, last.args.desc_addr).ok
    /\ get_host_address(mem, last.args.used_addr).ok
    /\ get_host_address(mem, last.args.avail_addr).ok
    /\ last.result.kind = "InvalidQueue"

\* C3: set_vring_addr returns InvalidQueue whenever used_addr + (6 + 8 * size)
\* or avail_addr + (6 + 2 * size) overflows or is not in mapped memory.
C3_EachRingByItsOwnFormula ==
    ( /\ last.op = "set_vring_addr"
      /\ \/ ~RingEndMapped(mem, last.args.used_addr, used_ring_size(last.args.queue_size))
         \/ ~RingEndMapped(mem, last.args.avail_addr, avail_ring_size(last.args.queue_size)) )
    => last.result.kind = "InvalidQueue"

\* The unsigned integer held by the n bytes of bytes from offset off.
RECURSIVE le_value(_, _, _)
le_value(bytes, off, n) ==
    IF n = 0 THEN 0 ELSE bytes[off + 1] + 256 * le_value(bytes, off + 1, n - 1)

RecordAt(bytes, i) ==
    LET off == VhostMemorySize + i * VhostMemoryRegionSize
    IN  [guest_phys_addr |-> le_value(bytes, off, 8),
         memory_size     |-> le_value(bytes, off + 8, 8),
         userspace_addr  |-> le_value(bytes, off + 16, 8),
         flags_padding   |-> le_value(bytes, off + 24, 8)]

\* C7: the table set_mem_table passes to the kernel has length header size +
\* n * record size, header count n, and its i-th record holds the i-th
\* region's (guest_phys_addr, memory_size, userspace_addr) with flags_padding 0.
C7_TableLayout ==
    last.op = "set_mem_table" =>
        /\ Len(ioctls) = 1
        /\ ioctls[1].req = "VHOST_SET_MEM_TABLE"
        /\ LET bytes == ioctls[1].arg
               n == num_regions(mem)
           IN  /\ Len(bytes) = VhostMemorySize + n * VhostMemoryRegionSize
               /\ le_value(bytes, 0, 4) = n
               /\ \A i \in 0..(n - 1) :
                      RecordAt(bytes, i) =
                          [guest_phys_addr |-> mem[i + 1].guest_base,
                           memory_size     |-> mem[i + 1].size,
                           userspace_addr  |-> mem[i + 1].host_address,
                           flags_padding   |-> 0]

\* A table of two regions has been handed to the kernel.
C7_Witness ==
    /\ last.op = "set_mem_table"
    /\ num_regions(mem) = 2
    /\ Len(ioctls) = 1

RequestOf(op) ==
    CASE op = "set_owner"      -> "VHOST_SET_OWNER"
      [] op = "get_features"   -> "VHOST_GET_FEATURES"
      [] op = "set_features"   -> "VHOST_SET_FEATURES"
      [] op = "set_mem_table"  -> "VHOST_SET_MEM_TABLE"
      [] op = "set_vring_num"  -> "VHOST_SET_VRING_NUM"
      [] op = "set_vring_addr" -> "VHOST_SET_VRING_ADDR"
      [] op = "set_vring_base" -> "VHOST_SET_VRING_BASE"
      [] op = "set_vring_call" -> "VHOST_SET_VRING_CALL"
      [] op = "set_vring_kick" -> "VHOST_SET_VRING_KICK"

\* C9: every operation issues at most one kernel call, of its own request
\* kind; a negative return code gives IoctlError with the kernel's error, any
\* other return code gives Ok.
C9_OneCallNoRetry ==
    last.op # "new" =>
        /\ Len(ioctls) <= 1
        /\ last.op # "set_vring_addr" => Len(ioctls) = 1
        /\ \A i \in 1..Len(ioctls) :
               /\ ioctls[i].req = RequestOf(last.op)
               /\ ioctls[i].ret < 0 => last.result = Err("IoctlError", ioctls[i].errno)
               /\ ioctls[i].ret >= 0 => last.result.kind = "Ok"

\* The kernel refused a set_vring_kick with EINVAL.
C9_Witness ==
    /\ last.op = "set_vring_kick"
    /\ Len(ioctls) = 1 /\ ioctls[1].ret < 0
    /\ last.result = Err("IoctlError", 22)

\* C10: an operation that returns an error leaves the kernel-side
\* configuration as it was before the call.
C10_ErrorLeavesConfiguration ==
    [][(nops' # nops /\ last'.result.kind # "Ok") => kernel' = kernel]_vars

\* A set_vring_addr has failed on a session that already holds configuration.
C10_Witness ==
    /\ last.op = "set_vring_addr"
    /\ last.result.kind # "Ok"
    /\ kernel.owner
    /\ kernel.vring_addr[0] # Unset

\* C11: no operation is refused locally for the order it is invoked in: every
\* operation but set_vring_addr reaches the kernel whatever was invoked before,
\* and set_vring_addr returns InvalidQueue exactly when the validator rejects
\* its arguments against the session's GuestMemory, whether or not
\* set_mem_table (or set_owner) was invoked before it.
C11_NoLocalOrdering ==
    last.op # "new" =>
        /\ last.op # "set_vring_addr" =>
               (Len(ioctls) = 1 /\ ioctls[1].req = RequestOf(last.op))
        /\ last.op = "set_vring_addr" =>
               /\ last.result.kind = "InvalidQueue" <=> ~ValidatorAccepts(last.args)
               /\ ( /\ ValidatorAccepts(last.args)
                    /\ get_host_address(mem, last.args.desc_addr).ok
                    /\ get_host_address(mem, last.args.used_addr).ok
                    /\ get_host_address(mem, last.args.avail_addr).ok
                    /\ \A x \in last.args.log_addr : get_host_address(mem, x).ok )
                  => Len(ioctls) = 1
        /\ last.result.kind \in {"Ok", "IoctlError", "InvalidQueue", "DescriptorTableAddress",
                                 "UsedAddress", "AvailAddress", "LogAddress"}

\* A set_vring_addr invoked first on a session, with neither an owner nor a
\* memory table set, has reached the kernel.
C11_Witness ==
    /\ last.op = "set_vring_addr"
    /\ nops = 1
    /\ ~kernel.owner /\ table = NoTable
    /\ Len(ioctls) = 1

\* The translations of set_vring_addr in source order: the field, whether it
\* is translated at all, and the guest address.
TranslationOrder(a) ==
    << [kind |-> "DescriptorTableAddress", addrs |-> {a.desc_addr}],
       [kind |-> "UsedAddress",            addrs |-> {a.used_addr}],
       [kind |-> "AvailAddress",           addrs |-> {a.avail_addr}],
       [kind |-> "LogAddress",             addrs |-> a.log_addr] >>

Untranslatable(a) ==
    {i \in 1..4 : \E x \in TranslationOrder(a)[i].addrs : ~get_host_address(mem, x).ok}

\* C12: when the validator accepts and a guest address cannot be translated,
\* set_vring_addr issues no kernel call and returns the error of the first
\* failing field in the order descriptor table, used ring, available ring,
\* log address; the log address is translated only when it is Some, and None
\* reaches the kernel as log address 0.
C12_FirstFailingTranslation ==
    (last.op = "set_vring_addr" /\ ValidatorAccepts(last.args)) =>
        LET bad == Untranslatable(last.args)
        IN  /\ bad # {} =>
                LET first == CHOOSE i \in bad : \A j \in bad : i <= j
                    field == TranslationOrder(last.args)[first]
                IN  /\ ioctls = << >>
                    /\ last.result.kind = field.kind
                    /\ last.result.val \in field.addrs
            /\ bad = {} =>
                /\ Len(ioctls) = 1
                /\ last.args.log_addr = {} => ioctls[1].arg.log_guest_addr = 0
                /\ \A x \in last.args.log_addr :
                       ioctls[1].arg.log_guest_addr = get_host_address(mem, x).addr

\* The used ring and the available ring both fail to translate; the used
\* ring's error is the one returned.
C12_Witness ==
    /\ last.op = "set_vring_addr"
    /\ ValidatorAccepts(last.args)
    /\ get_host_address(mem, last.args.desc_addr).ok
    /\ ~get_host_address(mem, last.args.used_addr).ok
    /\ ~get_host_address(mem, last.args.avail_addr).ok
    /\ last.result.kind = "UsedAddress"
    /\ ioctls = << >>

---------------------------------------------------------------------------
(* The decoder session bridge: LibvdaSession (vda.rs) *)

\* const OUTPUT_BUFFER_COUNT: usize = 32
OUTPUT_BUFFER_COUNT == 32

\* Formats a guest may name; only NV12 is a libvda::PixelFormat.
Formats == {"NV12", "YUV420", "H264"}
PictureBufferIds == {0, 1}

\* What a call on the underlying libvda session returns.
SessionResults == {"ok", "fail"}

\* The events libvda::decode::Session::read_event can return, and a failed read.
LibvdaEvents ==
    { [ok |-> TRUE, kind |-> k] :
        k \in {"ProvidePictureBuffers", "PictureReady", "NotifyEndOfBitstreamBuffer",
               "NotifyError", "ResetResponse", "FlushResponse"} }
    \cup { [ok |-> FALSE, kind |-> "ReadError"] }

\* One call on the underlying session and whether it succeeded.
SessionCall(name, arg, r) == [name |-> name, arg |-> arg, ok |-> r = "ok"]

\* The ? operator on a libvda result: the error converted to a VideoError.
VdaResult(r) == IF r = "ok" THEN Ok(0) ELSE Err("VdaError", 0)

\* TryFrom<Format> for libvda::PixelFormat
pixel_format(format) ==
    IF format = "NV12" THEN Ok("NV12") ELSE Err("InvalidParameter", 0)

\* What a LibvdaSession operation did: the flag afterwards, the calls made on
\* the underlying session, and the result returned.
VdaOutcome(called, calls, result) == [called |-> called, calls |-> calls, result |-> result]

\* Operations that forward one call: decode, flush, reset, reuse_output_buffer.
forward(called, name, arg, r) ==
    VdaOutcome(called, <<SessionCall(name, arg, r)>>, VdaResult(r))

\* use_output_buffer with the flag set before set_output_buffer_count is known
\* to have succeeded.
use_output_buffer_flag_first(called, picture_buffer_id, format, r_count, r_use) ==
    LET count == IF called THEN << >>
                 ELSE <<SessionCall("set_output_buffer_count", OUTPUT_BUFFER_COUNT, r_count)>>
        pf == pixel_format(format)
    IN  IF ~called /\ r_count # "ok" THEN VdaOutcome(TRUE, count, VdaResult(r_count))
        ELSE IF pf.kind # "Ok" THEN VdaOutcome(TRUE, count, pf)
        ELSE VdaOutcome(TRUE,
                        count \o <<SessionCall("use_output_buffer",
                                               <<picture_buffer_id, pf.val>>, r_use)>>,
                        VdaResult(r_use))

\* LibvdaSession::use_output_buffer.  r_count and r_use are what the session
\* returns to set_output_buffer_count and use_output_buffer if they are called.
use_output_buffer(called, picture_buffer_id, format, r_count, r_use) ==
    LET count == IF called THEN << >>
                 ELSE <<SessionCall("set_output_buffer_count", OUTPUT_BUFFER_COUNT, r_count)>>
        pf == pixel_format(format)
    IN  IF ~called /\ r_count # "ok" THEN VdaOutcome(called, count, VdaResult(r_count))
        ELSE IF pf.kind # "Ok" THEN VdaOutcome(TRUE, count, pf)
        ELSE VdaOutcome(TRUE,
                        count \o <<SessionCall("use_output_buffer",
                                               <<picture_buffer_id, pf.val>>, r_use)>>,
                        VdaResult(r_use))

\* From<libvda::decode::Event> for DecoderEvent
decoder_event(kind) ==
    CASE kind = "ResetResponse" -> "ResetCompleted"
      [] kind = "FlushResponse" -> "FlushCompleted"
      [] OTHER -> kind

\* read_event with the flag cleared by every event read.
read_event_any_event(called, event) ==
    VdaOutcome(IF event.ok THEN FALSE ELSE called,
               <<[name |-> "read_event", arg |-> event.kind, ok |-> event.ok]>>,
               IF event.ok THEN Ok(decoder_event(event.kind)) ELSE Err("VdaError", 0))

\* LibvdaSession::read_event
read_event(called, event) ==
    VdaOutcome(IF event.ok /\ event.kind = "ProvidePictureBuffers" THEN FALSE ELSE called,
               <<[name |-> "read_event", arg |-> event.kind, ok |-> event.ok]>>,
               IF event.ok THEN Ok(decoder_event(event.kind)) ELSE Err("VdaError", 0))

\* The effect of one LibvdaSession operation.
VdaPerform(op, args, out) ==
    /\ vda.n < MaxOps
    /\ vda' =
         [set_output_buffer_count_called |-> out.called,
          negotiated |->
              IF \E i \in 1..Len(out.calls) :
                     out.calls[i].name = "set_output_buffer_count" /\ out.calls[i].ok
              THEN TRUE
              ELSE IF \E i \in 1..Len(out.calls) :
                          /\ out.calls[i].name = "read_event" /\ out.calls[i].ok
                          /\ out.calls[i].arg = "ProvidePictureBuffers"
              THEN FALSE
              ELSE vda.negotiated,
          negotiations |->
              vda.negotiations +
                  Cardinality({i \in 1..Len(out.calls) :
                      out.calls[i].name = "set_output_buffer_count" /\ out.calls[i].ok}),
          before |-> [called |-> vda.set_output_buffer_count_called,
                      negotiated |-> vda.negotiated],
          calls |-> out.calls,
          last |-> [op |-> op, args |-> args, result |-> out.result],
          n |-> vda.n + 1]
    /\ UNCHANGED <<mem, kernel, ioctls, last, table, prev_table, nops, vq, verdict, fdt>>

Decode ==
    \E id \in PictureBufferIds, r \in SessionResults :
        VdaPerform("decode", <<id>>,
                   forward(vda.set_output_buffer_count_called, "decode", id, r))

Flush ==
    \E r \in SessionResults :
        VdaPerform("flush", << >>,
                   forward(vda.set_output_buffer_count_called, "flush", 0, r))

Reset ==
    \E r \in SessionResults :
        VdaPerform("reset", << >>,
                   forward(vda.set_output_buffer_count_called, "reset", 0, r))

UseOutputBuffer ==
    \E id \in PictureBufferIds, format \in Formats, r_count \in SessionResults,
       r_use \in SessionResults :
        VdaPerform("use_output_buffer", <<id, format>>,
                   use_output_buffer(vda.set_output_buffer_count_called, id, format,
                                     r_count, r_use))

ReuseOutputBuffer ==
    \E id \in PictureBufferIds, r \in SessionResults :
        VdaPerform("reuse_output_buffer", <<id>>,
                   forward(vda.set_output_buffer_count_called, "reuse_output_buffer", id, r))

ReadEvent ==
    \E event \in LibvdaEvents :
        VdaPerform("read_event", << >>,
                   read_event(vda.set_output_buffer_count_called, event))

VdaNext ==
    \/ Decode
    \/ Flush
    \/ Reset
    \/ UseOutputBuffer
    \/ ReuseOutputBuffer
    \/ ReadEvent

\* A freshly created LibvdaSession; the vhost session is not driven.
VdaInit ==
    /\ mem = EmptyMap
    /\ kernel = KernelInit
    /\ ioctls = << >>
    /\ last = [op |-> "new", args |-> << >>, result |-> Ok(0)]
    /\ table = NoTable
    /\ prev_table = NoTable
    /\ nops = 0
    /\ vq = NoVq
    /\ verdict = NotCalled
    /\ vda = VdaNew
    /\ fdt = FdtNew

VdaSpec == VdaInit /\ [][VdaNext]_vars

---------------------------------------------------------------------------
(* Properties of the decoder session, checked under VdaSpec *)

\* The positions of the calls of the given name among the last operation's
\* calls on the underlying session.
CallsNamed(name) == {i \in 1..Len(vda.calls) : vda.calls[i].name = name}

\* C13: use_output_buffer calls session.set_output_buffer_count, with 32,
\* exactly when none has succeeded since the session was created or since the
\* last ProvidePictureBuffers event read; no other operation calls it; every
\* forwarded session.use_output_buffer comes after a successful negotiation.
\* Since the negotiation state is moved only by a successful
\* set_output_buffer_count and by an Ok ProvidePictureBuffers event, no other
\* event, read error, flush or reset re-arms the negotiation.
C13_OneTimeNegotiation ==
    /\ vda.last.op = "use_output_buffer" =>
           /\ CallsNamed("set_output_buffer_count") =
                  (IF vda.before.negotiated THEN {} ELSE {1})
           /\ \A i \in CallsNamed("set_output_buffer_count") :
                  vda.calls[i].arg = OUTPUT_BUFFER_COUNT
    /\ vda.last.op # "use_output_buffer" => CallsNamed("set_output_buffer_count") = {}
    /\ \A i \in CallsNamed("use_output_buffer") :
           /\ vda.last.op = "use_output_buffer"
           /\ \/ vda.before.negotiated
              \/ \E j \in CallsNamed("set_output_buffer_count") : j < i /\ vda.calls[j].ok

\* A second negotiation: a ProvidePictureBuffers event came after the first
\* one, and use_output_buffer has set the buffer count again.
C13_Witness ==
    /\ vda.last.op = "use_output_buffer"
    /\ vda.negotiations = 2
    /\ CallsNamed("use_output_buffer") # {}

\* C14: whenever use_output_buffer returns an error the flag has the value it
\* had before the call, and a call rejected for its pixel format has made no
\* call on the underlying session.
C14_ErrorKeepsFlag ==
    (vda.last.op = "use_output_buffer" /\ vda.last.result.kind # "Ok") =>
        /\ vda.set_output_buffer_count_called = vda.before.called
        /\ vda.last.result.kind = "InvalidParameter" => vda.calls = << >>

\* C14 as amended: when use_output_buffer returns an error, the flag differs
\* from the value it had before the call only if this call's own
\* set_output_buffer_count succeeded, and then it is true; a failed
\* set_output_buffer_count leaves the flag false and is the call's only session
\* call; a call rejected for its pixel format has made no
\* session.use_output_buffer call, and has made a set_output_buffer_count call
\* exactly if the flag was false before it.
C14_ErrorKeepsNegotiation ==
    (vda.last.op = "use_output_buffer" /\ vda.last.result.kind # "Ok") =>
        LET counted == \E i \in CallsNamed("set_output_buffer_count") : vda.calls[i].ok
            count_failed == \E i \in CallsNamed("set_output_buffer_count") : ~vda.calls[i].ok
        IN  /\ vda.set_output_buffer_count_called = (vda.before.called \/ counted)
            /\ count_failed =>
                   (~vda.set_output_buffer_count_called /\ Len(vda.calls) = 1)
            /\ vda.last.result.kind = "InvalidParameter" =>
                   /\ CallsNamed("use_output_buffer") = {}
                   /\ (vda.calls = << >>) <=> vda.before.called

\* A first use_output_buffer whose buffer count was accepted and whose pixel
\* format was then rejected: the error is returned with the flag now true.
C14_Witness ==
    /\ vda.last.op = "use_output_buffer"
    /\ vda.last.result.kind = "InvalidParameter"
    /\ ~vda.before.called
    /\ vda.set_output_buffer_count_called
    /\ Len(vda.calls) = 1

---------------------------------------------------------------------------
(* The device tree builder: start_fdt and finish_fdt (fdt.rs) *)

\* Status codes libfdt may return: 0 is success; -3, -2, -1 are library errors
\* (FDT_ERR_NOSPACE, FDT_ERR_EXISTS, FDT_ERR_NOTFOUND); 1 is another non-zero
\* code.
FdtStatuses == {-3, -2, -1, 0, 1}
FdtMaxSizes == {4096, 65536}

\* One libfdt call and the status it returned.
FdtStep(fn, status) == [fn |-> fn, status |-> status]

\* What an operation did: the libfdt calls it made, in order, and its result.
FdtOutcome(steps, result) == [steps |-> steps, result |-> result]

\* start_fdt.  rets gives, for each libfdt function, the status it returns if
\* it is called.
start_fdt(rets) ==
    IF rets.fdt_create # 0
    THEN FdtOutcome(<<FdtStep("fdt_create", rets.fdt_create)>>,
                    Err("FdtCreateError", rets.fdt_create))
    ELSE IF rets.fdt_finish_reservemap # 0
    THEN FdtOutcome(<<FdtStep("fdt_create", rets.fdt_create),
                      FdtStep("fdt_finish_reservemap", rets.fdt_finish_reservemap)>>,
                    Err("FdtFinishReservemapError", rets.fdt_finish_reservemap))
    ELSE FdtOutcome(<<FdtStep("fdt_create", rets.fdt_create),
                      FdtStep("fdt_finish_reservemap", rets.fdt_finish_reservemap)>>,
                    Ok(0))

\* finish_fdt that goes on to fdt_pack whatever fdt_open_into returned.
finish_fdt_open_into_unchecked(rets) ==
    IF rets.fdt_finish # 0
    THEN FdtOutcome(<<FdtStep("fdt_finish", rets.fdt_finish)>>,
                    Err("FdtFinishError", rets.fdt_finish))
    ELSE IF rets.fdt_pack # 0
    THEN FdtOutcome(<<FdtStep("fdt_finish", rets.fdt_finish),
                      FdtStep("fdt_open_into", rets.fdt_open_into),
                      FdtStep("fdt_pack", rets.fdt_pack)>>,
                    Err("FdtPackError", rets.fdt_pack))
    ELSE FdtOutcome(<<FdtStep("fdt_finish", rets.fdt_finish),
                      FdtStep("fdt_open_into", rets.fdt_open_into),
                      FdtStep("fdt_pack", rets.fdt_pack)>>,
                    Ok(0))

\* finish_fdt
finish_fdt(rets) ==
    IF rets.fdt_finish # 0
    THEN FdtOutcome(<<FdtStep("fdt_finish", rets.fdt_finish)>>,
                    Err("FdtFinishError", rets.fdt_finish))
    ELSE IF rets.fdt_open_into # 0
    THEN FdtOutcome(<<FdtStep("fdt_finish", rets.fdt_finish),
                      FdtStep("fdt_open_into", rets.fdt_open_into)>>,
                    Err("FdtOpenIntoError", rets.fdt_open_into))
    ELSE IF rets.fdt_pack # 0
    THEN FdtOutcome(<<FdtStep("fdt_finish", rets.fdt_finish),
                      FdtStep("fdt_open_into", rets.fdt_open_into),
                      FdtStep("fdt_pack", rets.fdt_pack)>>,
                    Err("FdtPackError", rets.fdt_pack))
    ELSE FdtOutcome(<<FdtStep("fdt_finish", rets.fdt_finish),
                      FdtStep("fdt_open_into", rets.fdt_open_into),
                      FdtStep("fdt_pack", rets.fdt_pack)>>,
                    Ok(0))

\* The effect of one device tree operation.
FdtPerform(op, fdt_max_size, out) ==
    /\ fdt.n < MaxOps
    /\ fdt' = [op |-> op, fdt_max_size |-> fdt_max_size, steps |-> out.steps,
               result |-> out.result, n |-> fdt.n + 1]
    /\ UNCHANGED <<mem, kernel, ioctls, last, table, prev_table, nops, vq, verdict, vda>>

StartFdt ==
    \E fdt_max_size \in FdtMaxSizes, create \in FdtStatuses, reservemap \in FdtStatuses :
        FdtPerform("start_fdt", fdt_max_size,
                   start_fdt([fdt_create |-> create, fdt_finish_reservemap |-> reservemap]))

FinishFdt ==
    \E fdt_max_size \in FdtMaxSizes, finish \in FdtStatuses, open_into \in FdtStatuses,
       pack \in FdtStatuses :
        FdtPerform("finish_fdt", fdt_max_size,
                   finish_fdt([fdt_finish |-> finish, fdt_open_into |-> open_into,
                               fdt_pack |-> pack]))

FdtNext ==
    \/ StartFdt
    \/ FinishFdt

\* No device tree operation yet; the vhost session and the decoder are not driven.
FdtInit ==
    /\ mem = EmptyMap
    /\ kernel = KernelInit
    /\ ioctls = << >>
    /\ last = [op |-> "new", args |-> << >>, result |-> Ok(0)]
    /\ table = NoTable
    /\ prev_table = NoTable
    /\ nops = 0
    /\ vq = NoVq
    /\ verdict = NotCalled
    /\ vda = VdaNew
    /\ fdt = FdtNew

FdtSpec == FdtInit /\ [][FdtNext]_vars

---------------------------------------------------------------------------
(* Properties of the device tree builder, checked under FdtSpec *)

\* The library steps of each operation in order, with the error kind of each.
FdtOrder(op) ==
    IF op = "start_fdt"
    THEN << [fn |-> "fdt_create",            err |-> "FdtCreateError"],
            [fn |-> "fdt_finish_reservemap", err |-> "FdtFinishReservemapError"] >>
    ELSE << [fn |-> "fdt_finish",    err |-> "FdtFinishError"],
            [fn |-> "fdt_open_into", err |-> "FdtOpenIntoError"],
            [fn |-> "fdt_pack",      err |-> "FdtPackError"] >>

\* C15: finish_fdt performs finish, open-into, pack in that order and start_fdt
\* performs create, finish-reservemap; each stops at the first step returning a
\* non-zero status, runs no later step and returns that step's error kind with
\* its status; it returns Ok only if every step returned 0.
C15_StopAtFirstFailingStep ==
    fdt.op \in {"start_fdt", "finish_fdt"} =>
        LET order == FdtOrder(fdt.op)
            k == Len(fdt.steps)
        IN  /\ 1 <= k /\ k <= Len(order)
            /\ \A i \in 1..k : fdt.steps[i].fn = order[i].fn
            /\ \A i \in 1..(k - 1) : fdt.steps[i].status = 0
            /\ fdt.steps[k].status # 0 =>
                   fdt.result = Err(order[k].err, fdt.steps[k].status)
            /\ fdt.steps[k].status = 0 => (k = Len(order) /\ fdt.result = Ok(0))
            /\ fdt.result.kind = "Ok" => (k = Len(order) /\ \A i \in 1..k : fdt.steps[i].status = 0)

\* finish_fdt has stopped at a failing fdt_open_into, without packing.
C15_Witness ==
    /\ fdt.op = "finish_fdt"
    /\ Len(fdt.steps) = 2
    /\ fdt.steps[2].status = -3
    /\ fdt.result = Err("FdtOpenIntoError", -3)

=============================================================================
